---- MODULE Spec2Model ----
(***************************************************************************)
(* Coalition-aware greedy list scheduling (src/src/heuristics.py) over the *)
(* problem model of src/src/models.py.                                     *)
(*                                                                         *)
(* Two specifications share the module:                                    *)
(*   Spec        one run of greedy_heuristic on a bounded ProblemInstance, *)
(*               one step per iteration of its main loop;                  *)
(*   FinderSpec  one call of find_minimal_coalition on a bounded task and  *)
(*               roster.                                                   *)
(* Times are integers: the code's float arithmetic is exact on them.       *)
(***************************************************************************)
EXTENDS Integers, Sequences, FiniteSets, TLC

VARIABLES
    tasks,                    \* ProblemInstance.tasks: id -> Task record
    robots,                   \* ProblemInstance.robots: id -> skill vector
    travel_times,             \* ProblemInstance.travel_times
    precedence_constraints,   \* ProblemInstance.precedence_constraints
    robot_available_time,     \* greedy_heuristic locals ...
    robot_current_location,
    tasks_to_schedule,
    scheduled_task_ids,
    task_finish_times,
    robot_schedules,
    makespan,                 \* result["makespan"], once returned
    warned,                   \* the "Heuristic failed" warning was printed
    pc,                       \* position in greedy_heuristic / in the call
    call_task,                \* FinderSpec: the requirement vector passed
    call_result               \* FinderSpec: what find_minimal_coalition returned

instance_vars == <<tasks, robots, travel_times, precedence_constraints>>
run_vars == <<robot_available_time, robot_current_location, tasks_to_schedule,
              scheduled_task_ids, task_finish_times, robot_schedules,
              makespan, warned>>
call_vars == <<call_task, call_result>>
vars == <<instance_vars, run_vars, pc, call_vars>>

(***************************************************************************)
(* Bounds of the model.                                                    *)
(***************************************************************************)
MaxReal == 2        \* Spec: real (non-dummy) tasks of an instance
MaxRobots == 3      \* FinderSpec: robots of the roster
NumSkills == 3      \* FinderSpec: skill dimension K

(***************************************************************************)
(* Small helpers on Python values.                                         *)
(***************************************************************************)
Max2(a, b) == IF a >= b THEN a ELSE b

\* max(...) of a non-empty finite set of numbers
MaxOfSet(S) == CHOOSE x \in S : \A y \in S : y <= x

\* the list [f(0), ..., f(n-1)] of a function over 0..n-1 as a set of values
Range(f) == {f[x] : x \in DOMAIN f}

\* a remove that leaves the list as it was
ListRemove_keep(s, x) == s

\* list.remove(x): drops the first element equal to x
RECURSIVE ListRemove(_, _)
ListRemove(s, x) ==
    IF s = <<>> THEN <<>>
    ELSE IF Head(s) = x THEN Tail(s)
    ELSE <<Head(s)>> \o ListRemove(Tail(s), x)

(***************************************************************************)
(* models.py                                                               *)
(***************************************************************************)
\* Robot.has_skills
has_skills(skills, required_skills) ==
    \A i \in 1..Len(required_skills) :
        ~(required_skills[i] = 1 /\ skills[i] = 0)

\* ProblemInstance.__init__: first and last tasks are dummies
IsDummy(i, num_tasks_total) ==
    i = 0 \/ (i = num_tasks_total - 1 /\ num_tasks_total > 1)

\* ProblemInstance.__init__: the raw [pre, suc] pairs inverted into
\* successor -> list of predecessors, in the order of the pairs
RECURSIVE BuildPrecedence(_, _)
BuildPrecedence(pairs, acc) ==
    IF pairs = <<>> THEN acc
    ELSE LET pre == Head(pairs)[1]
             suc == Head(pairs)[2]
             old == IF suc \in DOMAIN acc THEN acc[suc] ELSE <<>>
         IN BuildPrecedence(Tail(pairs),
                [k \in (DOMAIN acc) \cup {suc} |->
                    IF k = suc THEN Append(old, pre) ELSE acc[k]])

\* ProblemInstance.num_robots
num_robots == Cardinality(DOMAIN robots)

\* ProblemInstance.get_real_tasks: ids of the non-dummy tasks, in list order
RECURSIVE RealFrom(_, _)
RealFrom(tt, i) ==
    IF i \notin DOMAIN tt THEN <<>>
    ELSE (IF tt[i].is_dummy THEN <<>> ELSE <<i>>) \o RealFrom(tt, i + 1)

get_real_tasks(tt) == RealFrom(tt, 0)

(***************************************************************************)
(* heuristics.py: find_minimal_coalition                                   *)
(* A result is [none |-> TRUE] for None, else [none |-> FALSE,             *)
(* coalition |-> list of robot ids].                                       *)
(***************************************************************************)
None == [none |-> TRUE, coalition |-> <<>>]
Some(c) == [none |-> FALSE, coalition |-> c]

\* Python truthiness of the result: None and [] are both falsy
Truthy(res) == ~res.none /\ Len(res.coalition) > 0

\* indices (0-based, as enumerate gives them) where a vector holds 1
Ones(vec) == {i - 1 : i \in {j \in 1..Len(vec) : vec[j] = 1}}

\* a scan that keeps the last, instead of the first, robot of largest count
RECURSIVE BestRobot_lastTie(_, _, _, _)
BestRobot_lastTie(rs, pool, uncovered, best) ==
    IF pool = <<>> THEN best
    ELSE LET covered_by_this_robot == uncovered \cap Ones(rs[Head(pool)])
         IN IF /\ covered_by_this_robot # {}
               /\ Cardinality(covered_by_this_robot) >= Cardinality(best.covered)
            THEN BestRobot_lastTie(rs, Tail(pool), uncovered,
                     [robot |-> <<Head(pool)>>, covered |-> covered_by_this_robot])
            ELSE BestRobot_lastTie(rs, Tail(pool), uncovered, best)

\* lines 40-50: scan the pool in order, keep the first robot whose newly
\* covered set is strictly larger than the best so far
RECURSIVE BestRobot(_, _, _, _)
BestRobot(rs, pool, uncovered, best) ==
    IF pool = <<>> THEN best
    ELSE LET covered_by_this_robot == uncovered \cap Ones(rs[Head(pool)])
         IN IF Cardinality(covered_by_this_robot) > Cardinality(best.covered)
            THEN BestRobot(rs, Tail(pool), uncovered,
                     [robot |-> <<Head(pool)>>, covered |-> covered_by_this_robot])
            ELSE BestRobot(rs, Tail(pool), uncovered, best)

\* a cover that stops after its first pick (an `if` for the `while`)
GreedyCover_once(rs, uncovered_skills, coalition, available_robots) ==
    LET b == BestRobot(rs, available_robots, uncovered_skills,
                       [robot |-> <<>>, covered |-> {}])
    IN IF b.robot # <<>> THEN Some(Append(coalition, b.robot[1])) ELSE None

\* lines 39-60: the greedy set-cover loop
RECURSIVE GreedyCover(_, _, _, _)
GreedyCover(rs, uncovered_skills, coalition, available_robots) ==
    IF uncovered_skills = {} THEN Some(coalition)
    ELSE LET b == BestRobot(rs, available_robots, uncovered_skills,
                            [robot |-> <<>>, covered |-> {}])
         IN IF b.robot # <<>>
            THEN GreedyCover(rs, uncovered_skills \ b.covered,
                             Append(coalition, b.robot[1]),
                             ListRemove(available_robots, b.robot[1]))
            ELSE None

\* the last, instead of the first, robot that has every required skill
RECURSIVE FirstCapable_last(_, _, _)
FirstCapable_last(rs, i, required_skills) ==
    IF i \notin DOMAIN rs THEN <<>>
    ELSE LET later == FirstCapable_last(rs, i + 1, required_skills)
         IN IF later # <<>> THEN later
            ELSE IF has_skills(rs[i], required_skills) THEN <<i>> ELSE <<>>

\* lines 30-32: the first robot, in roster order, that has every required skill
RECURSIVE FirstCapable(_, _, _)
FirstCapable(rs, i, required_skills) ==
    IF i \notin DOMAIN rs THEN <<>>
    ELSE IF has_skills(rs[i], required_skills) THEN <<i>>
    ELSE FirstCapable(rs, i + 1, required_skills)

\* line 37: list(robots), as robot ids in roster order
RosterList(rs) == [i \in 1..Cardinality(DOMAIN rs) |-> i - 1]

\* a finder whose cover must reach every skill index, required or not
find_minimal_coalition_allIndices(required_skills, rs) ==
    IF ~(\E i \in 1..Len(required_skills) : required_skills[i] = 1)
    THEN Some(<<>>)
    ELSE LET single == FirstCapable(rs, 0, required_skills)
         IN IF single # <<>> THEN Some(single)
            ELSE GreedyCover(rs, 0..(Len(required_skills) - 1), <<>>, RosterList(rs))

\* a finder without the early return of lines 26-27
find_minimal_coalition_noEarlyReturn(required_skills, rs) ==
    LET single == FirstCapable(rs, 0, required_skills)
    IN IF single # <<>> THEN Some(single)
       ELSE GreedyCover(rs, Ones(required_skills), <<>>, RosterList(rs))

\* lines 25-37, 60
find_minimal_coalition(required_skills, rs) ==
    IF ~(\E i \in 1..Len(required_skills) : required_skills[i] = 1)
    THEN Some(<<>>)
    ELSE LET single == FirstCapable(rs, 0, required_skills)
         IN IF single # <<>> THEN Some(single)
            ELSE GreedyCover(rs, Ones(required_skills), <<>>, RosterList(rs))

(***************************************************************************)
(* heuristics.py: greedy_heuristic                                         *)
(***************************************************************************)
\* line 96: problem.precedence_constraints.get(task.id, [])
Predecessors(t) ==
    IF t \in DOMAIN precedence_constraints THEN precedence_constraints[t] ELSE <<>>

\* a readiness test that never looks at the predecessors
IsReady_always(t) == TRUE

\* a readiness test that accepts a task once any one predecessor is scheduled
IsReady_any(t) ==
    \/ Predecessors(t) = <<>>
    \/ \E k \in 1..Len(Predecessors(t)) : Predecessors(t)[k] \in scheduled_task_ids

\* line 97: all(p in scheduled_task_ids for p in predecessors)
IsReady(t) ==
    \A k \in 1..Len(Predecessors(t)) : Predecessors(t)[k] \in scheduled_task_ids

\* the earliest, instead of the latest, predecessor finish time
MaxPredFinishTime_min(t) ==
    LET preds == Predecessors(t)
        fin(p) == IF p \in DOMAIN task_finish_times THEN task_finish_times[p] ELSE 0
    IN IF preds = <<>> THEN 0
       ELSE CHOOSE x \in {fin(preds[k]) : k \in 1..Len(preds)} :
                \A y \in {fin(preds[k]) : k \in 1..Len(preds)} : x <= y

\* line 100: max((task_finish_times.get(p, 0) for p in predecessors), default=0.0)
MaxPredFinishTime(t) ==
    LET preds == Predecessors(t)
        fin(p) == IF p \in DOMAIN task_finish_times THEN task_finish_times[p] ELSE 0
    IN IF preds = <<>> THEN 0
       ELSE MaxOfSet({fin(preds[k]) : k \in 1..Len(preds)})

\* the time the first, instead of the last, member arrives (`min` for `max`)
CoalitionReadyTime_min(t, coalition) ==
    LET arrivals == {robot_available_time[coalition[k]]
                       + travel_times[robot_current_location[coalition[k]]][t]
                     : k \in 1..Len(coalition)}
    IN CHOOSE x \in arrivals : \A y \in arrivals : x <= y

\* a ready time that forgets the travel to the task
CoalitionReadyTime_noTravel(t, coalition) ==
    MaxOfSet({robot_available_time[coalition[k]] : k \in 1..Len(coalition)})

\* lines 107-111: the time the last coalition member arrives at the task
CoalitionReadyTime(t, coalition) ==
    MaxOfSet({robot_available_time[coalition[k]]
                + travel_times[robot_current_location[coalition[k]]][t]
              : k \in 1..Len(coalition)})

\* lines 102-123 for one ready task: <<>> when it yields no candidate
Candidate(t) ==
    LET res == find_minimal_coalition(tasks[t].requirements, robots)
    IN IF Truthy(res)
       THEN LET start_time == Max2(CoalitionReadyTime(t, res.coalition),
                                   MaxPredFinishTime(t))
            IN <<[task |-> t,
                  coalition |-> res.coalition,
                  start_time |-> start_time,
                  finish_time |-> start_time + tasks[t].execution_time]>>
       ELSE <<>>

\* a scan that stops at the first task without a candidate (`break` for
\* `continue`)
RECURSIVE BestAssignment_break(_, _)
BestAssignment_break(pending, best) ==
    IF pending = <<>> THEN best
    ELSE LET t == Head(pending)
             c == IF IsReady(t) THEN Candidate(t) ELSE <<>>
         IN IF c = <<>> THEN best
            ELSE IF best = <<>> \/ c[1].finish_time < best[1].finish_time
            THEN BestAssignment_break(Tail(pending), c)
            ELSE BestAssignment_break(Tail(pending), best)

\* a scan that replaces the best assignment on an equal finish time (`<=`
\* for `<`), so the last of the tied tasks wins
RECURSIVE BestAssignment_lastTie(_, _)
BestAssignment_lastTie(pending, best) ==
    IF pending = <<>> THEN best
    ELSE LET t == Head(pending)
             c == IF IsReady(t) THEN Candidate(t) ELSE <<>>
         IN IF c # <<>> /\ (best = <<>> \/ c[1].finish_time <= best[1].finish_time)
            THEN BestAssignment_lastTie(Tail(pending), c)
            ELSE BestAssignment_lastTie(Tail(pending), best)

\* lines 92-123: the scan of tasks_to_schedule. best is <<>> for None (then
\* earliest_finish_time is still inf and any finish time is smaller), else
\* <<assignment>> with earliest_finish_time = assignment.finish_time
RECURSIVE BestAssignment(_, _)
BestAssignment(pending, best) ==
    IF pending = <<>> THEN best
    ELSE LET t == Head(pending)
             c == IF IsReady(t) THEN Candidate(t) ELSE <<>>
         IN IF c # <<>> /\ (best = <<>> \/ c[1].finish_time < best[1].finish_time)
            THEN BestAssignment(Tail(pending), c)
            ELSE BestAssignment(Tail(pending), best)

best_assignment == BestAssignment(tasks_to_schedule, <<>>)

\* a membership test that takes every robot for a member
InCoalition_all(r, coalition) == TRUE

\* line 132: the robots the loop `for robot in coalition` visits
InCoalition(r, coalition) == \E k \in 1..Len(coalition) : coalition[k] = r

\* a commit whose pending list is the instance's own task list, so that the
\* removal of line 142 takes the task out of the instance as well
Commit_aliased(best) ==
    /\ pc = "loop"
    /\ Len(tasks_to_schedule) > 0
    /\ best # <<>>
    /\ LET a == best[1]
           entry == [task |-> a.task, start_time |-> a.start_time,
                     end_time |-> a.finish_time]
       IN /\ robot_available_time' =
                [r \in DOMAIN robot_available_time |->
                    IF InCoalition(r, a.coalition) THEN a.finish_time
                    ELSE robot_available_time[r]]
          /\ robot_current_location' =
                [r \in DOMAIN robot_current_location |->
                    IF InCoalition(r, a.coalition) THEN a.task
                    ELSE robot_current_location[r]]
          /\ robot_schedules' =
                [k \in DOMAIN robot_schedules |->
                    IF \E r \in DOMAIN robots :
                           k = ToString(r) /\ InCoalition(r, a.coalition)
                    THEN Append(robot_schedules[k], entry)
                    ELSE robot_schedules[k]]
          /\ scheduled_task_ids' = scheduled_task_ids \cup {a.task}
          /\ task_finish_times' =
                [k \in (DOMAIN task_finish_times) \cup {a.task} |->
                    IF k = a.task THEN a.finish_time ELSE task_finish_times[k]]
          /\ tasks_to_schedule' = ListRemove(tasks_to_schedule, a.task)
          /\ tasks' = [i \in DOMAIN tasks \ {a.task} |-> tasks[i]]
    /\ UNCHANGED <<robots, travel_times, precedence_constraints,
                   makespan, warned, pc, call_vars>>

\* lines 125-143: an iteration of the main loop that commits its best assignment
Commit(best) ==
    /\ pc = "loop"
    /\ Len(tasks_to_schedule) > 0
    /\ best # <<>>
    /\ LET a == best[1]
           entry == [task |-> a.task, start_time |-> a.start_time,
                     end_time |-> a.finish_time]
       IN /\ robot_available_time' =
                [r \in DOMAIN robot_available_time |->
                    IF InCoalition(r, a.coalition) THEN a.finish_time
                    ELSE robot_available_time[r]]
          /\ robot_current_location' =
                [r \in DOMAIN robot_current_location |->
                    IF InCoalition(r, a.coalition) THEN a.task
                    ELSE robot_current_location[r]]
          /\ robot_schedules' =
                [k \in DOMAIN robot_schedules |->
                    IF \E r \in DOMAIN robots :
                           k = ToString(r) /\ InCoalition(r, a.coalition)
                    THEN Append(robot_schedules[k], entry)
                    ELSE robot_schedules[k]]
          /\ scheduled_task_ids' = scheduled_task_ids \cup {a.task}
          /\ task_finish_times' =
                [k \in (DOMAIN task_finish_times) \cup {a.task} |->
                    IF k = a.task THEN a.finish_time ELSE task_finish_times[k]]
          /\ tasks_to_schedule' = ListRemove(tasks_to_schedule, a.task)
    /\ UNCHANGED <<instance_vars, makespan, warned, pc, call_vars>>

\* the smallest, instead of the largest, availability time
Makespan_min ==
    IF DOMAIN robot_available_time # {}
    THEN CHOOSE x \in Range(robot_available_time) :
             \A y \in Range(robot_available_time) : x <= y
    ELSE 0

\* lines 149-156: the makespan of the returned record
Makespan ==
    IF DOMAIN robot_available_time # {}
    THEN MaxOfSet(Range(robot_available_time)) ELSE 0

\* lines 144-156: an iteration that finds no assignment warns, breaks out of
\* the loop and returns what was scheduled so far
Abort(best) ==
    /\ pc = "loop"
    /\ Len(tasks_to_schedule) > 0
    /\ best = <<>>
    /\ warned' = TRUE
    /\ makespan' = Makespan
    /\ pc' = "returned"
    /\ UNCHANGED <<instance_vars, robot_available_time, robot_current_location,
                   tasks_to_schedule, scheduled_task_ids, task_finish_times,
                   robot_schedules, call_vars>>

\* lines 91, 149-156: nothing is left to schedule, the loop ends and the
\* result is returned
Finish ==
    /\ pc = "loop"
    /\ Len(tasks_to_schedule) = 0
    /\ makespan' = Makespan
    /\ pc' = "returned"
    /\ UNCHANGED <<instance_vars, robot_available_time, robot_current_location,
                   tasks_to_schedule, scheduled_task_ids, task_finish_times,
                   robot_schedules, warned, call_vars>>

(***************************************************************************)
(* Bounded problem instances. A run of the scheduler is explored over two  *)
(* skills, up to two robots, execution times 1 and 2, tasks laid out on a  *)
(* line on alternating sides of the depot (tasks 1, 2, 3, ... at            *)
(* coordinates 1, -1, 2, ...), so that a task listed later can be as near  *)
(* as one listed earlier, and up to two precedence pairs; the finder alone *)
(* is explored over the wider rosters of FinderSpec.                       *)
(***************************************************************************)
Abs(x) == IF x < 0 THEN -x ELSE x

BitVectors(k) == [1..k -> {0, 1}]

\* rosters of at most m robots with k skills, ids 0.. (models.py lines 86-92)
Rosters(m, k) == UNION {[0..(c - 1) -> BitVectors(k)] : c \in 0..m}

SchedVectors == BitVectors(2)
SchedRosters == Rosters(2, 2)
ExecTimes == {1, 2}

\* raw precedence pairs [pre, suc]: pre the depot or a real task, suc another
\* real task; lists of pairs are taken in one canonical order
PairRank(p, n) == p[1] * (n + 2) + p[2]
PairLists(n) ==
    LET Pairs == {p \in (0..n) \X (1..n) : p[1] # p[2]}
    IN UNION {{q \in [1..k -> Pairs] :
                  \A i \in 1..(k - 1) : PairRank(q[i], n) < PairRank(q[i + 1], n)}
              : k \in 0..2}

\* travel times between the task locations
TravelMatrix(tt) ==
    [i \in DOMAIN tt |-> [j \in DOMAIN tt |->
        Abs(tt[i].location[1] - tt[j].location[1])
          + Abs(tt[i].location[2] - tt[j].location[2])]]

\* the coordinate of task i on the line: odd ids on one side of the depot,
\* even ids on the other
Coord(i) == IF i % 2 = 1 THEN (i + 1) \div 2 ELSE 0 - (i \div 2)

\* models.py lines 74-84: task 0 and the last task are dummies
MakeTasks(n, exec, reqs) ==
    [i \in 0..(n + 1) |->
        [id |-> i,
         execution_time |-> IF IsDummy(i, n + 2) THEN 0 ELSE exec[i],
         location |-> <<Coord(i), 0>>,
         requirements |-> IF IsDummy(i, n + 2) THEN [k \in 1..2 |-> 0] ELSE reqs[i],
         is_dummy |-> IsDummy(i, n + 2)]]

\* the state after lines 81-89, for some bounded instance
Init ==
    /\ \E n \in 0..MaxReal :
         \E exec \in [1..n -> ExecTimes], reqs \in [1..n -> SchedVectors],
            pairs \in PairLists(n) :
            /\ tasks = MakeTasks(n, exec, reqs)
            /\ travel_times = TravelMatrix(MakeTasks(n, exec, reqs))
            /\ precedence_constraints = BuildPrecedence(pairs, <<>>)
    /\ robots \in SchedRosters
    /\ robot_available_time = [r \in DOMAIN robots |-> 0]
    /\ robot_current_location = [r \in DOMAIN robots |-> 0]
    /\ tasks_to_schedule = get_real_tasks(tasks)
    /\ scheduled_task_ids = {0}
    /\ task_finish_times = [k \in {0} |-> 0]
    /\ robot_schedules = [k \in {ToString(r) : r \in DOMAIN robots} |-> <<>>]
    /\ makespan = -1
    /\ warned = FALSE
    /\ pc = "loop"
    /\ call_task = <<>>
    /\ call_result = None

\* one iteration of the main loop (its scan, then lines 125-147), or the return
Next ==
    \/ \E best \in {best_assignment} : Commit(best)
    \/ \E best \in {best_assignment} : Abort(best)
    \/ Finish

Spec == Init /\ [][Next]_vars

(***************************************************************************)
(* One call of find_minimal_coalition.                                     *)
(***************************************************************************)
FinderInit ==
    /\ call_task \in BitVectors(NumSkills)
    /\ robots \in Rosters(MaxRobots, NumSkills)
    /\ call_result = None
    /\ pc = "call"
    /\ tasks = <<>>
    /\ travel_times = <<>>
    /\ precedence_constraints = <<>>
    /\ robot_available_time = <<>>
    /\ robot_current_location = <<>>
    /\ tasks_to_schedule = <<>>
    /\ scheduled_task_ids = {}
    /\ task_finish_times = <<>>
    /\ robot_schedules = <<>>
    /\ makespan = -1
    /\ warned = FALSE

FindCall ==
    /\ pc = "call"
    /\ call_result' = find_minimal_coalition(call_task, robots)
    /\ pc' = "found"
    /\ UNCHANGED <<instance_vars, run_vars, call_task>>

FinderNext == FindCall

FinderSpec == FinderInit /\ [][FinderNext]_vars

(***************************************************************************)
(* Properties of the scheduler and of the finder.                          *)
(***************************************************************************)
\* ids of the real tasks of the instance, and the tasks committed so far
RealIds == {i \in DOMAIN tasks : ~tasks[i].is_dummy}
Committed == scheduled_task_ids \ {0}
PredSet(t) == {Predecessors(t)[k] : k \in 1..Len(Predecessors(t))}

\* every schedule entry written so far, with the robot key it is filed under
Entries ==
    UNION {{<<k, robot_schedules[k][i]>> : i \in 1..Len(robot_schedules[k])} :
              k \in DOMAIN robot_schedules}

\* C1: at the step that commits a task, every predecessor listed for it is
\* already in scheduled_task_ids and has its finish time recorded.
C1_PredecessorsRecordedAtCommit ==
    [][\A t \in scheduled_task_ids' \ scheduled_task_ids :
          \A p \in PredSet(t) :
              p \in scheduled_task_ids /\ p \in DOMAIN task_finish_times]_vars

\* a task with a real predecessor has been committed
C1_Witness ==
    \E t \in Committed : \E p \in PredSet(t) : p # 0 /\ p \in Committed

\* C2: a committed task never starts before any of its predecessors has
\* finished: every schedule entry of a committed task t starts at or after
\* the recorded finish time of every predecessor of t.
C2_StartsAfterPredecessors ==
    \A e \in Entries : \A p \in PredSet(e[2].task) :
        /\ p \in DOMAIN task_finish_times
        /\ e[2].start_time >= task_finish_times[p]

\* a task was held back by a predecessor: it started when the predecessor
\* finished, on a robot that had been free earlier
C2_Witness ==
    \E e \in Entries : \E p \in PredSet(e[2].task) :
        /\ p \in Committed
        /\ e[2].start_time = task_finish_times[p]
        /\ \A f \in Entries : f[2].task = p => f[1] # e[1]

\* C3: a Ready real task with an all-zero requirement vector yields a
\* candidate and is committed without touching any robot, at finish time
\* max(0, max_pred_finish) + execution_time; so a run never returns with
\* such a task Ready and still pending.
C3_EmptyCoalitionCommitted ==
    pc = "returned" =>
        \A t \in RealIds :
            ((\A i \in 1..Len(tasks[t].requirements) : tasks[t].requirements[i] = 0)
                /\ IsReady(t))
            => /\ t \in scheduled_task_ids
               /\ task_finish_times[t] = MaxPredFinishTime(t) + tasks[t].execution_time

\* skills some robot of the roster rs has, as 0-based indices
RosterSkills(rs) == UNION {Ones(rs[r]) : r \in DOMAIN rs}

\* C4: a non-None result of find_minimal_coalition covers the task: every
\* required index is a skill of at least one member of the coalition.
C4_CoalitionCovers ==
    (pc = "found" /\ ~call_result.none) =>
        \A i \in Ones(call_task) :
            \E k \in 1..Len(call_result.coalition) :
                i \in Ones(robots[call_result.coalition[k]])

\* the greedy cover returned a coalition of two or more robots
C4_Witness ==
    pc = "found" /\ ~call_result.none /\ Len(call_result.coalition) >= 2

\* C5: find_minimal_coalition returns None exactly when the skills of the
\* whole roster fail to cover some required index.
C5_NoneIffRosterCannotCover ==
    pc = "found" =>
        (call_result.none <=> ~(Ones(call_task) \subseteq RosterSkills(robots)))

\* None was returned although the roster has some of the required skills
C5_Witness ==
    /\ pc = "found"
    /\ call_result.none
    /\ Ones(call_task) \cap RosterSkills(robots) # {}

\* robots of the roster that have every required skill of the call
Dominating == {r \in DOMAIN robots : Ones(call_task) \subseteq Ones(robots[r])}

\* C6: when the task requires a skill and some single robot has every
\* required skill, the result is the one-robot coalition of the dominating
\* robot with the lowest id.
C6_LowestDominatingRobot ==
    (pc = "found" /\ Ones(call_task) # {} /\ Dominating # {}) =>
        /\ ~call_result.none
        /\ call_result.coalition =
              <<CHOOSE r \in Dominating : \A q \in Dominating : r <= q>>

\* two robots dominate and the first robot of the roster does not
C6_Witness ==
    /\ pc = "found"
    /\ Ones(call_task) # {}
    /\ Cardinality(Dominating) >= 2
    /\ 0 \notin Dominating
    /\ Len(call_result.coalition) = 1

\* C7: the returned makespan is the largest finish time of the tasks
\* committed in the run, 0 if none was committed, and 0 without robots.
C7_MakespanIsLastFinish ==
    pc = "returned" =>
        /\ makespan = IF Committed = {} THEN 0
                      ELSE MaxOfSet({task_finish_times[t] : t \in Committed})
        /\ (num_robots = 0 => makespan = 0)

\* a run returned after two commits while one robot was free earlier than
\* the makespan
C7_Witness ==
    /\ pc = "returned"
    /\ Cardinality(Committed) >= 2
    /\ \E r \in DOMAIN robots : 0 < robot_available_time[r]
                                /\ robot_available_time[r] < makespan

\* an iteration that commits: exactly one real task, pending until then,
\* becomes scheduled and leaves the pending list
CommitsOne ==
    \E t \in RealIds :
        /\ t \notin scheduled_task_ids
        /\ \E k \in 1..Len(tasks_to_schedule) : tasks_to_schedule[k] = t
        /\ scheduled_task_ids' = scheduled_task_ids \cup {t}
        /\ tasks_to_schedule' = ListRemove(tasks_to_schedule, t)
        /\ Len(tasks_to_schedule') = Len(tasks_to_schedule) - 1
        /\ pc' = "loop"

\* C8: every iteration of the main loop commits exactly one pending real
\* task, shrinking the pending list by one, or ends the run; the commits and
\* the pending tasks always add up to the real tasks, so the loop runs at
\* most that many iterations and one more.
C8_LoopTerminates ==
    /\ [][pc = "loop" => (CommitsOne \/ pc' = "returned")]_vars
    /\ [](Cardinality(Committed) + Len(tasks_to_schedule) = Cardinality(RealIds))

\* a run returned without a warning after committing MaxReal tasks
C8_Witness ==
    /\ pc = "returned"
    /\ ~warned
    /\ Cardinality(Committed) = MaxReal
    /\ tasks_to_schedule = <<>>

\* tasks still pending
Pending == {tasks_to_schedule[k] : k \in 1..Len(tasks_to_schedule)}

\* the roster has every skill the task requires
Satisfiable(t) == Ones(tasks[t].requirements) \subseteq RosterSkills(robots)

\* C9 (as stated), on instances whose real tasks all require some skill:
\* when a run aborts with tasks pending, no remaining task can be satisfied
\* by any subset of the robots.
C9_AbortLeavesOnlyUnsatisfiable ==
    (pc = "returned" /\ warned
        /\ \A t \in RealIds : Ones(tasks[t].requirements) # {})
    => \A t \in Pending : ~Satisfiable(t)

\* C9 (amended): a run aborts only in a round where no Ready task has a
\* usable coalition (the finder gives None or the empty coalition for each
\* of them), so every task left pending by an abort is either not Ready or
\* has no usable coalition; one Ready task without a coalition does not
\* stop the others from being committed.
C9_AbortOnlyWithoutCandidates ==
    (pc = "returned" /\ warned) =>
        \A t \in Pending :
            \/ ~IsReady(t)
            \/ ~Truthy(find_minimal_coalition(tasks[t].requirements, robots))

\* the run aborted on a Ready task for which the finder gave None, leaving a
\* satisfiable task pending behind that unscheduled predecessor
C9_Witness ==
    /\ pc = "returned"
    /\ warned
    /\ \E t \in Pending : ~IsReady(t) /\ Satisfiable(t)
                          /\ Ones(tasks[t].requirements) # {}
    /\ \E t \in Pending :
          IsReady(t) /\ find_minimal_coalition(tasks[t].requirements, robots).none

\* real tasks requiring a skill no robot has, and their transitive successors
Unsatisfiable == {t \in RealIds : ~Satisfiable(t)}

RECURSIVE SuccessorClosure(_)
SuccessorClosure(S) ==
    LET more == {t \in RealIds \ S : PredSet(t) \cap S # {}}
    IN IF more = {} THEN S ELSE SuccessorClosure(S \cup more)

\* C10: a real task requiring a skill no robot has is never scheduled, nor
\* is any transitive successor of it; the run then ends with the warning,
\* and the returned schedules hold entries for committed tasks only.
C10_UnsatisfiableNeverScheduled ==
    LET blocked == SuccessorClosure(Unsatisfiable)
    IN /\ blocked \cap scheduled_task_ids = {}
       /\ (pc = "returned" /\ blocked # {}) => warned
       /\ \A e \in Entries : e[2].task \in Committed \ blocked

\* a run aborted with a satisfiable successor left behind an unsatisfiable task
C10_Witness ==
    /\ pc = "returned"
    /\ warned
    /\ \E t \in SuccessorClosure(Unsatisfiable) \ Unsatisfiable :
          Satisfiable(t) /\ Ones(tasks[t].requirements) # {}

\* some entry list is the other one with entries appended
IsPrefix(s, t) == Len(s) <= Len(t) /\ \A i \in 1..Len(s) : t[i] = s[i]

\* C12: a committed task stays Scheduled: no step removes it from
\* scheduled_task_ids, changes its recorded finish time, selects it again
\* (a step that writes schedule entries commits a task that was not
\* scheduled before), or modifies or removes a schedule entry already written.
C12_CommitsAreFinal ==
    [][/\ \A t \in scheduled_task_ids :
             /\ t \in scheduled_task_ids'
             /\ task_finish_times'[t] = task_finish_times[t]
       /\ \A k \in DOMAIN robot_schedules :
             /\ k \in DOMAIN robot_schedules'
             /\ IsPrefix(robot_schedules[k], robot_schedules'[k])
             /\ \A i \in (Len(robot_schedules[k]) + 1)..Len(robot_schedules'[k]) :
                   robot_schedules'[k][i].task \notin scheduled_task_ids
       /\ \A k \in 1..Len(tasks_to_schedule') :
             tasks_to_schedule'[k] \notin scheduled_task_ids']_vars

\* a second task was committed on a robot that already held an entry
C12_Witness ==
    /\ Cardinality(Committed) >= 2
    /\ \E k \in DOMAIN robot_schedules : Len(robot_schedules[k]) >= 2

\* the finish time the scan computes for a pending task, <<>> if the task is
\* not Ready or has no usable coalition
ReadyCandidate(t) == IF IsReady(t) THEN Candidate(t) ELSE <<>>

\* C13: a round that commits a task commits the one with the smallest
\* finish_time among the Ready tasks with a candidate in that round, and
\* among those with that smallest finish_time the one with the lowest id
\* (the earliest in the real-task list).
C13_EarliestFinishFirst ==
    [][\A t \in scheduled_task_ids' \ scheduled_task_ids :
          /\ ReadyCandidate(t) # <<>>
          /\ task_finish_times'[t] = ReadyCandidate(t)[1].finish_time
          /\ \A k \in 1..Len(tasks_to_schedule) :
                LET u == tasks_to_schedule[k]
                IN ReadyCandidate(u) # <<>> =>
                     \/ ReadyCandidate(t)[1].finish_time < ReadyCandidate(u)[1].finish_time
                     \/ /\ ReadyCandidate(t)[1].finish_time = ReadyCandidate(u)[1].finish_time
                        /\ t <= u]_vars

\* task 2 was committed in a round where task 1, listed before it, was
\* Ready with a candidate that finishes strictly later: task 1's coalition
\* has not moved since and task 1 would still finish after task 2 did
C13_Witness ==
    /\ pc = "loop"
    /\ Committed = {2}
    /\ tasks_to_schedule = <<1>>
    /\ PredSet(1) = {}
    /\ Candidate(1) # <<>>
    /\ \A k \in 1..Len(Candidate(1)[1].coalition) :
          robot_schedules[ToString(Candidate(1)[1].coalition[k])] = <<>>
    /\ Candidate(1)[1].finish_time > task_finish_times[2]

\* C14: for a requirement vector without a set bit find_minimal_coalition
\* returns the empty coalition whatever the roster, the empty roster
\* included, and that result is not the None of an infeasible task.
C14_NoRequirementEmptyCoalition ==
    (pc = "found" /\ Ones(call_task) = {}) =>
        /\ ~call_result.none
        /\ call_result.coalition = <<>>
        /\ call_result # None

\* the empty coalition was returned although the roster has robots
C14_Witness ==
    /\ pc = "found"
    /\ Ones(call_task) = {}
    /\ DOMAIN robots # {}
    /\ call_result = Some(<<>>)

\* robots whose schedule a step appends to
Appended == {r \in DOMAIN robots :
                robot_schedules'[ToString(r)] # robot_schedules[ToString(r)]}

\* C15: a task committed to a non-empty coalition is recorded with
\* start_time = max(latest arrival of a member, latest predecessor finish or
\* 0), the arrival of member r being robot_available_time[r] +
\* travel_times[robot_current_location[r]][task] just before the commit, and
\* with end_time = start_time + execution_time.
C15_StartAndEndTimes ==
    [][\A t \in scheduled_task_ids' \ scheduled_task_ids :
          Appended # {} =>
            LET arrival == MaxOfSet({robot_available_time[r]
                               + travel_times[robot_current_location[r]][t]
                               : r \in Appended})
                pred == IF PredSet(t) = {} THEN 0
                        ELSE MaxOfSet({task_finish_times[p] : p \in PredSet(t)})
                start == IF arrival >= pred THEN arrival ELSE pred
            IN \A r \in Appended :
                 LET e == robot_schedules'[ToString(r)]
                              [Len(robot_schedules'[ToString(r)])]
                 IN /\ e.task = t
                    /\ e.start_time = start
                    /\ e.end_time = start + tasks[t].execution_time]_vars

\* two robots share the entry of a task and only one of them had worked
\* before, so they arrived at different times
C15_Witness ==
    \E q, r \in DOMAIN robots :
        /\ Len(robot_schedules[ToString(q)]) = 2
        /\ Len(robot_schedules[ToString(r)]) = 1
        /\ robot_schedules[ToString(q)][2] = robot_schedules[ToString(r)][1]

\* C16: committing a task sets robot_available_time to the finish time and
\* robot_current_location to the task id for every robot of its coalition and
\* appends exactly one entry {task, start_time, finish time} to the schedule
\* of each of them; the availability, location and schedule of every other
\* robot stay as they were.
C16_CommitTouchesOnlyCoalition ==
    [][\A t \in scheduled_task_ids' \ scheduled_task_ids :
          LET coalition == find_minimal_coalition(tasks[t].requirements,
                                                  robots).coalition
              finish_time == task_finish_times'[t]
          IN \A r \in DOMAIN robots :
               IF r \in Range(coalition)
               THEN /\ robot_available_time'[r] = finish_time
                    /\ robot_current_location'[r] = t
                    /\ Len(robot_schedules'[ToString(r)])
                          = Len(robot_schedules[ToString(r)]) + 1
                    /\ IsPrefix(robot_schedules[ToString(r)],
                                robot_schedules'[ToString(r)])
                    /\ LET e == robot_schedules'[ToString(r)]
                                    [Len(robot_schedules'[ToString(r)])]
                       IN /\ DOMAIN e = {"task", "start_time", "end_time"}
                          /\ e.task = t
                          /\ e.end_time = finish_time
                          /\ e.start_time = finish_time - tasks[t].execution_time
               ELSE /\ robot_available_time'[r] = robot_available_time[r]
                    /\ robot_current_location'[r] = robot_current_location[r]
                    /\ robot_schedules'[ToString(r)]
                          = robot_schedules[ToString(r)]]_vars

\* a task was committed to one robot while another stayed idle at the depot
C16_Witness ==
    \E q, r \in DOMAIN robots :
        /\ Len(robot_schedules[ToString(q)]) >= 1
        /\ robot_current_location[q] # 0
        /\ robot_schedules[ToString(r)] = <<>>
        /\ robot_available_time[r] = 0
        /\ robot_current_location[r] = 0

\* the uncovered required indices a robot would newly cover
Gain(r, uncovered) == Cardinality(uncovered \cap Ones(robots[r]))

\* the greedy steps of a cover, told over sets: while something is uncovered,
\* take the least id among the pool robots of largest gain, stop with None
\* when the largest gain is zero
RECURSIVE GreedySteps(_, _, _)
GreedySteps(uncovered, pool, acc) ==
    IF uncovered = {} THEN Some(acc)
    ELSE LET top == {r \in pool : \A q \in pool : Gain(q, uncovered) <= Gain(r, uncovered)}
         IN IF top = {} \/ \A r \in top : Gain(r, uncovered) = 0 THEN None
            ELSE LET pick == CHOOSE r \in top : \A q \in top : r <= q
                 IN GreedySteps(uncovered \ Ones(robots[pick]), pool \ {pick},
                                Append(acc, pick))

\* what is still uncovered before step k of the returned coalition
UncoveredBefore(k) ==
    Ones(call_task) \ UNION {Ones(robots[call_result.coalition[j]]) : j \in 1..(k - 1)}

\* C17: when no single robot has every required skill, the result of
\* find_minimal_coalition is the one the greedy steps give: each step adds the
\* lowest-id pool robot of largest newly covered count, Infeasible as soon as
\* that count is zero; every member adds a newly covered index, no robot
\* appears twice and the coalition is no longer than the number of required
\* skills.
C17_GreedySteps ==
    (pc = "found" /\ Ones(call_task) # {} /\ Dominating = {}) =>
        /\ call_result = GreedySteps(Ones(call_task), DOMAIN robots, <<>>)
        /\ ~call_result.none =>
             LET c == call_result.coalition
             IN /\ \A k \in 1..Len(c) :
                     /\ c[k] \in DOMAIN robots
                     /\ Gain(c[k], UncoveredBefore(k)) >= 1
                     /\ \A r \in DOMAIN robots \ {c[j] : j \in 1..(k - 1)} :
                          \/ Gain(r, UncoveredBefore(k)) < Gain(c[k], UncoveredBefore(k))
                          \/ /\ Gain(r, UncoveredBefore(k)) = Gain(c[k], UncoveredBefore(k))
                             /\ c[k] <= r
                /\ \A j, k \in 1..Len(c) : j # k => c[j] # c[k]
                /\ Len(c) <= Cardinality(Ones(call_task))
                /\ UncoveredBefore(Len(c) + 1) = {}
        /\ call_result.none =>
             \E r \in Ones(call_task) : r \notin RosterSkills(robots)

\* a coalition of several robots whose first step had to break a tie
C17_Witness ==
    /\ pc = "found"
    /\ Dominating = {}
    /\ ~call_result.none
    /\ Len(call_result.coalition) >= 2
    /\ \E r \in DOMAIN robots :
         /\ r # call_result.coalition[1]
         /\ Gain(r, Ones(call_task)) = Gain(call_result.coalition[1], Ones(call_task))

\* C18: a run leaves the problem instance as it was: no step of the
\* scheduler, with the calls of find_minimal_coalition it makes, changes the
\* task list, the robot roster, the travel-time matrix or the precedence map.
C18_InstanceUnchanged ==
    [][/\ tasks' = tasks
       /\ robots' = robots
       /\ travel_times' = travel_times
       /\ precedence_constraints' = precedence_constraints]_vars

\* a finished run that committed tasks to robots of a non-empty instance
C18_Witness ==
    /\ pc = "returned"
    /\ Cardinality(Committed) >= 2
    /\ DOMAIN robots # {}
    /\ \E t \in RealIds : PredSet(t) # {}
    /\ \E k \in DOMAIN robot_schedules : robot_schedules[k] # <<>>

\* the schedule of robot r
ScheduleOf(r) == robot_schedules[ToString(r)]

\* C19: every robot's schedule is time-ordered and non-overlapping: an entry
\* starts no earlier than the end of the entry before it plus the travel time
\* between their tasks, the first entry no earlier than the travel time from
\* the depot; robot_available_time is the end of the robot's last entry (0
\* without one) and never decreases.
C19_SchedulesOrdered ==
    /\ [](pc \in {"loop", "returned"} =>
            \A r \in DOMAIN robots :
              LET s == ScheduleOf(r)
              IN /\ \A i \in 1..Len(s) : s[i].end_time >= s[i].start_time
                 /\ Len(s) >= 1 => s[1].start_time >= travel_times[0][s[1].task]
                 /\ \A i \in 1..(Len(s) - 1) :
                      s[i + 1].start_time
                         >= s[i].end_time + travel_times[s[i].task][s[i + 1].task]
                 /\ robot_available_time[r]
                      = IF s = <<>> THEN 0 ELSE s[Len(s)].end_time)
    /\ [][\A r \in DOMAIN robot_available_time :
             robot_available_time'[r] >= robot_available_time[r]]_vars

\* a robot went from one task straight to the next: its second entry starts
\* exactly when it arrives, after a positive travel time
C19_Witness ==
    \E r \in DOMAIN robots :
        /\ Len(ScheduleOf(r)) >= 2
        /\ travel_times[ScheduleOf(r)[1].task][ScheduleOf(r)[2].task] > 0
        /\ ScheduleOf(r)[2].start_time
             = ScheduleOf(r)[1].end_time
                 + travel_times[ScheduleOf(r)[1].task][ScheduleOf(r)[2].task]
        /\ robot_available_time[r] = ScheduleOf(r)[2].end_time

\* no real task is, through the precedence map, a successor of itself
Acyclic ==
    \A t \in RealIds :
        t \notin SuccessorClosure({u \in RealIds : t \in PredSet(u)})

\* every real task requires a skill, the roster has the skills it requires,
\* its predecessors are the depot or real tasks, and no precedence cycle
WellFormed ==
    /\ \A t \in RealIds :
         /\ Ones(tasks[t].requirements) # {}
         /\ Satisfiable(t)
         /\ PredSet(t) \subseteq RealIds \cup {0}
    /\ Acyclic

\* how many entries of robot r's schedule are for task t
TimesIn(r, t) ==
    Cardinality({i \in 1..Len(ScheduleOf(r)) : ScheduleOf(r)[i].task = t})

\* C20: on an instance whose real tasks all require a skill the roster can
\* cover and whose precedence map is acyclic over the depot and real tasks,
\* the run never aborts and ends with every real task scheduled exactly once:
\* one entry in the schedule of each member of its coalition, none elsewhere.
C20_WellFormedRunsComplete ==
    (pc \in {"loop", "returned"} /\ WellFormed) =>
        /\ ~warned
        /\ pc = "returned" =>
             /\ tasks_to_schedule = <<>>
             /\ Committed = RealIds
             /\ \A t \in RealIds :
                  LET coalition == find_minimal_coalition(tasks[t].requirements,
                                                          robots).coalition
                  IN \A r \in DOMAIN robots :
                       TimesIn(r, t) = IF r \in Range(coalition) THEN 1 ELSE 0

\* a complete run over a precedence pair of real tasks, one of them done by
\* a coalition of two robots
C20_Witness ==
    /\ pc = "returned"
    /\ WellFormed
    /\ ~warned
    /\ Cardinality(RealIds) = MaxReal
    /\ Committed = RealIds
    /\ \E t, u \in RealIds : t \in PredSet(u)
    /\ \E t \in RealIds :
         Cardinality({r \in DOMAIN robots : TimesIn(r, t) = 1}) = 2

====
